---- MODULE Spec2Model ----
(***************************************************************************)
(* A model of src/src/main.rs: the two-player "4 in a row" terminal game.  *)
(* The state is the App value (board, turn, input) owned by App::run, the  *)
(* position of App::run's control loop, and the terminal's mode.           *)
(*                                                                         *)
(* Two history variables record what the code did and are read only by     *)
(* the properties: ret, the return path the call of App::turn of the       *)
(* current loop iteration took, and placed, the number of calls of         *)
(* App::turn that reached the assignment of line 122.                      *)
(***************************************************************************)
EXTENDS Integers, Sequences, FiniteSets, TLC

VARIABLES board, turn, input, pc, raw, alt, result, drawn, ret, placed

vars == <<board, turn, input, pc, raw, alt, result, drawn, ret, placed>>

app == <<board, turn, input>>

term == <<raw, alt>>

(***************************************************************************)
(* Bounds of the exploration.                                              *)
(***************************************************************************)
\* Enter is explored while fewer than MaxMoves tokens are on the board ...
MaxMoves == 3
\* ... or while at most MaxLeft cells are still empty.
MaxLeft == 4
\* Every buffer of at most MaxLen digits is typed, and the LongInputs.
MaxLen == 1

\* Buffers of up to MaxZeros leading zeros are compared with the bare digit.
MaxZeros == 3

\* Longer buffers that are typed as well: leading zeros, usize::MAX and
\* usize::MAX + 1.
LongInputs ==
    { <<"0", "4">>,
      <<"0", "0", "7">>,
      <<"1", "8", "4", "4", "6", "7", "4", "4", "0", "7",
        "3", "7", "0", "9", "5", "5", "1", "6", "1", "5">>,
      <<"1", "8", "4", "4", "6", "7", "4", "4", "0", "7",
        "3", "7", "0", "9", "5", "5", "1", "6", "1", "6">> }

\* the buffers the exploration types
Typed(s) ==
    \/ Len(s) <= MaxLen
    \/ \E l \in LongInputs : Len(s) <= Len(l) /\ s = SubSeq(l, 1, Len(s))


(***************************************************************************)
(* Types: enum Turn, enum Field, board: [[Field; 7]; 6].                   *)
(***************************************************************************)
Rows == 6
Cols == 7

Turn == {"Red", "Blue"}

Field == {"Empty", "Red", "Blue"}

\* a faulty variant: both arms give Field::Red
IntoRed(t) == CASE t = "Red" -> "Red" [] t = "Blue" -> "Red"

\* impl Into<Field> for Turn
Into(t) == CASE t = "Red" -> "Red" [] t = "Blue" -> "Blue"

RowIdx == 0 .. (Rows - 1)
ColIdx == 0 .. (Cols - 1)

\* [[Field::Empty; 7]; 6]
EmptyBoard == [i \in RowIdx |-> [j \in ColIdx |-> "Empty"]]

(***************************************************************************)
(* str::parse::<usize>() on a 64-bit target.  Numbers are kept as their    *)
(* decimal digits without leading zeros (zero is <<0>>), because           *)
(* usize::MAX = 18446744073709551615 is beyond the integers TLC computes   *)
(* with.                                                                   *)
(***************************************************************************)
DigitChars == {"0", "1", "2", "3", "4", "5", "6", "7", "8", "9"}

\* char::is_digit(10)
IsDigit(c) == c \in DigitChars

\* char::to_digit(10)
ToDigit(c) ==
    CASE c = "0" -> 0 [] c = "1" -> 1 [] c = "2" -> 2 [] c = "3" -> 3
      [] c = "4" -> 4 [] c = "5" -> 5 [] c = "6" -> 6 [] c = "7" -> 7
      [] c = "8" -> 8 [] c = "9" -> 9

\* usize::MAX
UsizeMax == <<1, 8, 4, 4, 6, 7, 4, 4, 0, 7, 3, 7, 0, 9, 5, 5, 1, 6, 1, 5>>

\* a > b, on decimal digit sequences without leading zeros
DecGt(a, b) ==
    \/ Len(a) > Len(b)
    \/ /\ Len(a) = Len(b)
       /\ \E i \in 1 .. Len(a) :
            /\ a[i] > b[i]
            /\ \A j \in 1 .. (i - 1) : a[j] = b[j]

\* a faulty variant: a leading zero stays a digit of the number
MulAddKeepsZero(acc, d) == Append(acc, d)

\* acc * 10 + d
MulAdd(acc, d) == IF acc = <<0>> THEN <<d>> ELSE Append(acc, d)

\* the decimal digits of a number below ten
Dec(n) == <<n>>

\* the number a one-digit decimal stands for
Val(d) == d[1]

Ok(v) == [ok |-> TRUE, val |-> v]
Err == [ok |-> FALSE, val |-> <<>>]

\* the digit loop of from_str_radix: checked_mul, to_digit, checked_add
RECURSIVE ParseDigits(_, _)
ParseDigits(digits, acc) ==
    IF digits = <<>> THEN Ok(acc)
    ELSE IF ~IsDigit(Head(digits)) THEN Err
    ELSE LET n == MulAdd(acc, ToDigit(Head(digits)))
         IN  IF DecGt(n, UsizeMax) THEN Err
             ELSE ParseDigits(Tail(digits), n)

\* a faulty variant: a buffer that does not parse counts as column 1
ParseUsizeOr1(src) ==
    LET p == ParseDigits(src, <<0>>)
    IN  IF src = <<>> \/ ~p.ok THEN Ok(<<1>>) ELSE p

\* self.input.parse::<usize>(): an empty string, a lone sign, a character
\* that is no digit and a value above usize::MAX are errors
ParseUsize(src) ==
    IF src = <<>> THEN Err
    ELSE IF src = <<"+">> \/ src = <<"-">> THEN Err
    ELSE IF Head(src) = "+" THEN ParseDigits(Tail(src), <<0>>)
    ELSE ParseDigits(src, <<0>>)

(***************************************************************************)
(* App::turn                                                               *)
(***************************************************************************)
\* a faulty variant: >= for >, so that the last column is refused
OutOfRangeStrict(column) == column = <<0>> \/ ~DecGt(Dec(Cols), column)

\* column == 0 || column > self.board[0].len()
OutOfRange(column) == column = <<0>> \/ DecGt(column, Dec(Cols))

\* a faulty variant: the highest Empty row instead of the lowest
ScanRowFromTop(b, column, i) ==
    LET empty == {r \in i .. (Rows - 1) : b[r][column] = "Empty"}
    IN  IF empty = {} THEN Rows
        ELSE CHOOSE r \in empty : \A q \in empty : q <= r

\* a faulty variant: the loop gives up one row early
RECURSIVE ScanRowShort(_, _, _)
ScanRowShort(b, column, i) ==
    IF i >= Rows - 1 THEN Rows
    ELSE IF b[i][column] = "Empty" THEN i
    ELSE ScanRowShort(b, column, i + 1)

\* the loop of lines 108-120: the first Empty row at or above i, or Rows
\* when the loop returns
RECURSIVE ScanRow(_, _, _)
ScanRow(b, column, i) ==
    IF i >= Rows THEN Rows
    ELSE IF b[i][column] = "Empty" THEN i
    ELSE ScanRow(b, column, i + 1)

\* a faulty variant: the row found is not used
PlaceBottom(b, i, column, t) == [b EXCEPT ![0][column] = Into(t)]

\* self.board[i][column] = self.turn.into()
Place(b, i, column, t) == [b EXCEPT ![i][column] = Into(t)]

\* a faulty variant: the player is not switched
NextTurnSame(t) == t

\* self.turn = match self.turn { Red => Blue, Blue => Red }
NextTurn(t) == CASE t = "Red" -> "Blue" [] t = "Blue" -> "Red"

\* faulty variants: a rejection that clears the buffer, or passes the turn
RejectClearsRange(b, t, inp, r) ==
    [board |-> b, turn |-> t, input |-> IF r = "range" THEN <<>> ELSE inp,
     ret |-> r]

RejectClearsFull(b, t, inp, r) ==
    [board |-> b, turn |-> t, input |-> IF r = "full" THEN <<>> ELSE inp,
     ret |-> r]

RejectPassesTurn(b, t, inp, r) ==
    [board |-> b, turn |-> IF r = "full" THEN NextTurn(t) ELSE t,
     input |-> inp, ret |-> r]

RejectRangePassesTurn(b, t, inp, r) ==
    [board |-> b, turn |-> IF r = "range" THEN NextTurn(t) ELSE t,
     input |-> inp, ret |-> r]

\* the early returns of lines 96, 101 and 110: nothing is assigned
Reject(b, t, inp, r) == [board |-> b, turn |-> t, input |-> inp, ret |-> r]

\* pub fn turn(&mut self): the App it leaves and the return path it took
AppTurn(b, t, inp) ==
    LET parsed == ParseUsize(inp) IN
    IF ~parsed.ok THEN Reject(b, t, inp, "parse")
    ELSE IF OutOfRange(parsed.val) THEN Reject(b, t, inp, "range")
    ELSE LET column == Val(parsed.val) - 1
             i == ScanRow(b, column, 0)
         IN  IF i >= Rows THEN Reject(b, t, inp, "full")
             ELSE [board |-> Place(b, i, column, t),
                   turn |-> NextTurn(t),
                   input |-> <<>>,
                   ret |-> "placed"]

(***************************************************************************)
(* App::run                                                                *)
(***************************************************************************)
\* the characters a KeyCode::Char event carries, 'q' apart
Chars == DigitChars \cup {"a", "+"}

\* Field::Red and Field::Blue cells of the board
Tokens(b) == Cardinality({c \in RowIdx \X ColIdx : b[c[1]][c[2]] # "Empty"})

\* App::new() and the state before init_terminal is called
Init ==
    /\ board = EmptyBoard
    /\ turn = "Red"
    /\ input = <<>>
    /\ pc = "start"
    /\ raw = FALSE
    /\ alt = FALSE
    /\ result = "none"
    /\ drawn = "none"
    /\ ret = "none"
    /\ placed = 0

\* run returns: io::Result<()>
Exit(r) ==
    /\ pc' = "exit"
    /\ result' = r
    /\ drawn' = "none"
    /\ UNCHANGED <<app, ret, placed>>

\* init_terminal: enable_raw_mode()? fails
InitRawFails ==
    /\ pc = "start"
    /\ Exit("Err")
    /\ UNCHANGED term

\* init_terminal: stdout().execute(EnterAlternateScreen)? fails
InitAltFails ==
    /\ pc = "start"
    /\ raw' = TRUE
    /\ UNCHANGED alt
    /\ Exit("Err")

\* init_terminal: Terminal::new fails, and run's ? returns
InitTerminalFails ==
    /\ pc = "start"
    /\ raw' = TRUE
    /\ alt' = TRUE
    /\ Exit("Err")

\* init_terminal succeeds; App::new()
InitTerminal ==
    /\ pc = "start"
    /\ raw' = TRUE
    /\ alt' = TRUE
    /\ board' = EmptyBoard
    /\ turn' = "Red"
    /\ input' = <<>>
    /\ pc' = "draw"
    /\ UNCHANGED <<result, drawn, ret, placed>>

\* a faulty variant: rendering consumes the buffer
DrawTakesInput ==
    /\ pc = "draw"
    /\ \E r \in {"Ok", "Err"} : drawn' = r
    /\ pc' = "poll"
    /\ ret' = "none"
    /\ input' = <<>>
    /\ UNCHANGED <<board, turn, term, result, placed>>

\* let _ = terminal.draw(|frame| app.ui(frame)): the io::Result is dropped
Draw ==
    /\ pc = "draw"
    /\ \E r \in {"Ok", "Err"} : drawn' = r
    /\ pc' = "poll"
    /\ ret' = "none"
    /\ UNCHANGED <<app, term, result, placed>>

\* the end of a loop iteration that called no App::turn
Iterate ==
    /\ pc' = "draw"
    /\ drawn' = "none"
    /\ UNCHANGED <<term, result, ret, placed>>

\* event::poll(timeout)? fails
PollFails ==
    /\ pc = "poll"
    /\ Exit("Err")
    /\ UNCHANGED term

\* event::poll(timeout)? is Ok(false)
PollTimeout ==
    /\ pc = "poll"
    /\ Iterate
    /\ UNCHANGED app

\* event::read()? fails
ReadFails ==
    /\ pc = "poll"
    /\ Exit("Err")
    /\ UNCHANGED term

\* event::read()? is not an Event::Key
OtherEvent ==
    /\ pc = "poll"
    /\ Iterate
    /\ UNCHANGED app

\* KeyCode::Char('q') => break
KeyQuit ==
    /\ pc = "poll"
    /\ pc' = "restore"
    /\ drawn' = "none"
    /\ UNCHANGED <<app, term, result, ret, placed>>

\* app.input.push(c)
InputPush(s, c) == Append(s, c)

\* a faulty variant: the whole buffer is dropped
InputPopClears(s) == <<>>

\* a faulty variant: nothing is removed
InputPopNone(s) == s

\* app.input.pop(): the last character is removed, if there is one
InputPop(s) == IF s = <<>> THEN <<>> ELSE SubSeq(s, 1, Len(s) - 1)

\* a faulty variant: the character is pushed without the is_digit test
KeyCharAny(c) ==
    /\ pc = "poll"
    /\ Typed(Append(input, c))
    /\ input' = Append(input, c)
    /\ Iterate
    /\ UNCHANGED <<board, turn>>

\* KeyCode::Char(c) => if c.is_digit(10) { app.input.push(c) }
KeyChar(c) ==
    /\ pc = "poll"
    /\ IsDigit(c) => Typed(InputPush(input, c))
    /\ input' = IF IsDigit(c) THEN InputPush(input, c) ELSE input
    /\ Iterate
    /\ UNCHANGED <<board, turn>>

\* KeyCode::Backspace => app.input.pop()
KeyBackspace ==
    /\ pc = "poll"
    /\ input' = InputPop(input)
    /\ Iterate
    /\ UNCHANGED <<board, turn>>

\* KeyCode::Enter => app.turn()
KeyEnter ==
    /\ pc = "poll"
    /\ LET r == AppTurn(board, turn, input) IN
         /\ board' = r.board
         /\ turn' = r.turn
         /\ input' = r.input
         /\ ret' = r.ret
         /\ placed' = IF r.ret = "placed" THEN placed + 1 ELSE placed
    /\ pc' = "draw"
    /\ drawn' = "none"
    /\ UNCHANGED <<term, result>>

\* any other KeyCode: _ => {}
KeyOther ==
    /\ pc = "poll"
    /\ Iterate
    /\ UNCHANGED app

\* restore_terminal: disable_raw_mode()? fails
RestoreRawFails ==
    /\ pc = "restore"
    /\ Exit("Err")
    /\ UNCHANGED term

\* restore_terminal: stdout().execute(LeaveAlternateScreen)? fails
RestoreAltFails ==
    /\ pc = "restore"
    /\ raw' = FALSE
    /\ UNCHANGED alt
    /\ Exit("Err")

\* restore_terminal succeeds
RestoreTerminal ==
    /\ pc = "restore"
    /\ raw' = FALSE
    /\ alt' = FALSE
    /\ Exit("Ok")

\* Enter is explored in the opening and in the endgame
Explored ==
    LET n == Tokens(board) IN n < MaxMoves \/ n >= Rows * Cols - MaxLeft

\* the loop of App::run and what follows it
Loop ==
    \/ Draw
    \/ PollFails
    \/ PollTimeout
    \/ ReadFails
    \/ OtherEvent
    \/ KeyQuit
    \/ \E c \in Chars : KeyChar(c)
    \/ KeyBackspace
    \/ Explored /\ KeyEnter
    \/ KeyOther
    \/ RestoreRawFails
    \/ RestoreAltFails
    \/ RestoreTerminal

Next ==
    \/ InitRawFails
    \/ InitAltFails
    \/ InitTerminalFails
    \/ InitTerminal
    \/ Loop

Spec == Init /\ [][Next]_vars

(***************************************************************************)
(* The endgame: the run loop from a position in which at most MaxLeft      *)
(* cells are empty.  The position is the one the players reach by playing  *)
(* the columns 1, 2, ..., 7, 1, 2, ... in turn.                            *)
(***************************************************************************)
\* the character of a digit
Chr(n) == CHOOSE c \in DigitChars : ToDigit(c) = n

\* App::new() followed by n turns, the k-th for column ((k - 1) % 7) + 1
RECURSIVE Played(_)
Played(n) ==
    IF n = 0
    THEN [board |-> EmptyBoard, turn |-> "Red", input |-> <<>>, ret |-> "none"]
    ELSE LET a == Played(n - 1)
         IN  IF a.ret \in {"none", "placed"}
             THEN AppTurn(a.board, a.turn, <<Chr(((n - 1) % Cols) + 1)>>)
             ELSE a

Running ==
    /\ pc = "draw"
    /\ raw = TRUE
    /\ alt = TRUE
    /\ result = "none"
    /\ drawn = "none"
    /\ ret = "none"

InitLate ==
    \E n \in (Rows * Cols - MaxLeft) .. (Rows * Cols) :
        /\ board = Played(n).board
        /\ turn = Played(n).turn
        /\ input = <<>>
        /\ placed = n
        /\ Running

SpecLate == InitLate /\ [][Loop]_vars

(***************************************************************************)
(* The column-fill scenario: from the new App, "push digit k, Enter"       *)
(* again and again for one column k.                                       *)
(***************************************************************************)
InitFill ==
    /\ board = EmptyBoard
    /\ turn = "Red"
    /\ input = <<>>
    /\ placed = 0
    /\ Running

\* every token of the board is in column j
OnlyColumn(j) ==
    \A i \in RowIdx : \A c \in ColIdx : c # j => board[i][c] = "Empty"

FillPush ==
    \E k \in 1 .. Cols :
        /\ OnlyColumn(k - 1)
        /\ input = <<>>
        /\ KeyChar(Chr(k))

FillEnter ==
    /\ input # <<>>
    /\ KeyEnter

FillNext ==
    \/ Draw
    \/ FillPush
    \/ FillEnter

SpecFill == InitFill /\ [][FillNext]_vars

(***************************************************************************)
(* Properties                                                              *)
(***************************************************************************)
\* the step is a call of App::turn
Committed == pc = "poll" /\ ret' # "none"

\* the buffer is zeros followed by the digit n
BufferIs(n) ==
    /\ input # <<>>
    /\ \A i \in 1 .. (Len(input) - 1) : input[i] = "0"
    /\ input[Len(input)] = Chr(n)

\* the digits of the buffer after its leading zeros
RECURSIVE Strip(_)
Strip(s) ==
    IF s = <<>> THEN <<>>
    ELSE IF Head(s) = "0" THEN Strip(Tail(s))
    ELSE [i \in 1 .. Len(s) |-> ToDigit(s[i])]

\* the number the buffer writes is above usize::MAX
Exceeds(s) == DecGt(Strip(s), UsizeMax)

ColumnHasEmpty(j) == \E i \in RowIdx : board[i][j] = "Empty"

LowestEmpty(j) ==
    CHOOSE i \in RowIdx :
        /\ board[i][j] = "Empty"
        /\ \A k \in RowIdx : board[k][j] = "Empty" => i <= k

Other(t) == IF t = "Red" THEN "Blue" ELSE "Red"

Full == \A i \in RowIdx : \A j \in ColIdx : board[i][j] # "Empty"

\* C1: a commit of a buffer whose value n is in 1..7, with an Empty cell in
\* column n-1, sets exactly the lowest Empty row of that column to the
\* active player's token, clears the buffer and switches the active player.
C1_ValidMove ==
    [][\A n \in 1 .. Cols :
         (Committed /\ BufferIs(n) /\ ColumnHasEmpty(n - 1)) =>
            /\ board' = [board EXCEPT ![LowestEmpty(n - 1)][n - 1] = turn]
            /\ input' = <<>>
            /\ turn' = Other(turn)]_vars

C1_Witness ==
    /\ ret = "placed"
    /\ placed = 3
    /\ board[0][6] = "Red" /\ board[1][6] = "Blue" /\ board[2][6] = "Red"

\* C2: a commit of a buffer that parses to a number outside 1..7 changes
\* neither the board, nor the active player, nor the buffer.
C2_OutOfRangeNoOp ==
    [][(/\ Committed
        /\ input # <<>>
        /\ ~Exceeds(input)
        /\ \A n \in 1 .. Cols : ~BufferIs(n)) => UNCHANGED <<board, turn, input>>]_vars

C2_Witness ==
    /\ ret = "range"
    /\ Len(input) = 20
    /\ placed = 2

\* C3: a commit of a buffer that does not parse (empty, or above usize::MAX)
\* changes neither the board, nor the active player, nor the buffer, and the
\* loop goes on with no error.
C3_ParseFailureNoOp ==
    [][(Committed /\ (input = <<>> \/ Exceeds(input))) =>
          /\ UNCHANGED <<board, turn, input>>
          /\ pc' = "draw"
          /\ result' = "none"]_vars

C3_Witness ==
    /\ ret = "parse"
    /\ Exceeds(input)
    /\ placed = 1

\* C4: a commit for a column whose 6 rows are all non-Empty changes neither
\* the board nor the active player, and the buffer is kept as it was.
C4_FullColumnNoOp ==
    [][\A n \in 1 .. Cols :
         (Committed /\ BufferIs(n) /\ ~ColumnHasEmpty(n - 1)) =>
            UNCHANGED <<board, turn, input>>]_vars

C4_Witness ==
    /\ ret = "full"
    /\ input = <<"5">>
    /\ ~Full

\* C5: the active player is Red when the number of successful placements so
\* far is even, and Blue when it is odd.
C5_Alternation == turn = IF placed % 2 = 0 THEN "Red" ELSE "Blue"

C5_Witness ==
    /\ placed = 2
    /\ turn = "Red"
    /\ ret = "range"
    /\ input = <<"9">>

\* C6: in every column, every cell below a non-Empty cell is non-Empty.
C6_Gravity ==
    \A j \in ColIdx : \A r \in RowIdx :
        board[r][j] # "Empty" => \A k \in 0 .. (r - 1) : board[k][j] # "Empty"

C6_Witness == \E j \in ColIdx : board[2][j] # "Empty" /\ board[3][j] = "Empty"

\* C7: a cell that holds a player's token holds the same token after every
\* step.
C7_CellImmutable ==
    [][\A i \in RowIdx : \A j \in ColIdx :
         board[i][j] # "Empty" => board'[i][j] = board[i][j]]_vars

C7_Witness ==
    /\ board[0][3] = "Red"
    /\ board[1][3] = "Blue"
    /\ placed = 3
    /\ pc = "exit"

\* column k-1 holds h tokens, Red and Blue in turn from row 0, the rest of
\* the board is Empty, and the player to move is the one h placements leave
FilledTo(k, h) ==
    /\ board = [i \in RowIdx |-> [j \in ColIdx |->
                  IF j = k - 1 /\ i < h
                  THEN (IF i % 2 = 0 THEN "Red" ELSE "Blue")
                  ELSE "Empty"]]
    /\ turn = IF h % 2 = 0 THEN "Red" ELSE "Blue"

\* C8: from the empty board, each of the first six "push k, Enter" puts one
\* token on the next row of column k-1, rows 0 to 5 in order, owners Red and
\* Blue in turn; the seventh leaves the board and the active player as they
\* were.
C8_ColumnFill ==
    /\ [](\E k \in 1 .. Cols : \E h \in 0 .. Rows : FilledTo(k, h))
    /\ [][\A k \in 1 .. Cols : \A h \in 0 .. Rows :
            (Committed /\ input = <<Chr(k)>> /\ FilledTo(k, h)) =>
               IF h < Rows
               THEN FilledTo(k, h + 1)'
               ELSE UNCHANGED <<board, turn>>]_vars

C8_Witness ==
    /\ FilledTo(4, Rows)
    /\ ret = "full"
    /\ placed = Rows

\* C9: once all 42 cells are non-Empty, no step changes the board or the
\* active player.
C9_FullBoardTerminal ==
    [][Full => (Full' /\ UNCHANGED <<board, turn>>)]_vars

C9_Witness ==
    /\ Full
    /\ ret = "full"
    /\ placed = Rows * Cols

\* C10: whenever run has returned, raw mode is disabled and the alternate
\* screen has been left.
C10_TerminalRestored == pc = "exit" => (~raw /\ ~alt)

\* C11: a failure of enable_raw_mode or of a frame write makes run return
\* an error: no step leaves a failed frame write for the rest of the loop.
C11_IoFailureFatal ==
    [][/\ (pc = "start" /\ ~raw') => (pc' = "exit" /\ result' = "Err")
       /\ (pc = "draw" /\ drawn' = "Err") => (pc' = "exit" /\ result' = "Err")]_vars

\* C12: a key that is no digit, Backspace, Enter or 'q' leaves the board,
\* the active player and the buffer as they were and the loop goes on; 'q'
\* can be pressed in every state of the loop, ends the loop and leaves the
\* board, the active player and the buffer as they were.
C12_KeyDispatch ==
    /\ [](pc = "poll" => ENABLED KeyQuit)
    /\ [][/\ ((\E c \in Chars \ DigitChars : KeyChar(c)) \/ KeyOther) =>
               (UNCHANGED <<board, turn, input>> /\ pc' = "draw")
          /\ KeyQuit =>
               (UNCHANGED <<board, turn, input>> /\ pc' \notin {"draw", "poll"})]_vars

C12_Witness ==
    /\ pc = "restore"
    /\ placed = 2
    /\ input = <<"0", "0">>

\* C13: pushing a digit is possible in every state of the loop and leaves
\* the old buffer with the digit appended; Backspace removes exactly the
\* last character of a non-empty buffer and leaves an empty buffer empty;
\* neither changes a cell of the board or the active player.
C13_BufferEditing ==
    /\ [](pc = "poll" =>
            /\ ENABLED KeyBackspace
            /\ \A c \in DigitChars : Typed(input \o <<c>>) => ENABLED KeyChar(c))
    /\ [][/\ \A c \in DigitChars : KeyChar(c) =>
               /\ input' = input \o <<c>>
               /\ UNCHANGED <<board, turn>>
          /\ KeyBackspace =>
               /\ input = <<>> => input' = <<>>
               /\ input # <<>> => input = input' \o <<input[Len(input)]>>
               /\ UNCHANGED <<board, turn>>]_vars

C13_Witness ==
    /\ pc = "draw"
    /\ input = <<"0", "0", "7">>
    /\ placed = 1

(***************************************************************************)
(* App::ui: what a frame shows.  A panel is its title, the colour of its   *)
(* border and its text; the board is the list of the rectangles drawn, in  *)
(* the order of the two loops of board_canvas.                             *)
(***************************************************************************)
\* fn red_player_canvas(&self)
RedPlayerCanvas(t, inp) ==
    LET ct == CASE t = "Red" -> [color |-> "Red", text |-> inp]
                [] t = "Blue" -> [color |-> "White", text |-> <<>>]
    IN  [title |-> "Red player", color |-> ct.color, text |-> ct.text]

\* a faulty variant: the arms of the match are exchanged
BluePlayerCanvasSwapped(t, inp) ==
    LET ct == CASE t = "Red" -> [color |-> "Blue", text |-> inp]
                [] t = "Blue" -> [color |-> "White", text |-> <<>>]
    IN  [title |-> "Blue player", color |-> ct.color, text |-> ct.text]

\* fn blue_player_canvas(&self)
BluePlayerCanvas(t, inp) ==
    LET ct == CASE t = "Blue" -> [color |-> "Blue", text |-> inp]
                [] t = "Red" -> [color |-> "White", text |-> <<>>]
    IN  [title |-> "Blue player", color |-> ct.color, text |-> ct.text]

\* a faulty variant: row and column are exchanged
RectangleSwapped(i, j, color) ==
    [x |-> i * 50, y |-> j * 50, width |-> 40, height |-> 40, color |-> color]

\* Rectangle { x: j * 50.0, y: i * 50.0, width: 40.0, height: 40.0, color }
Rectangle(i, j, color) ==
    [x |-> j * 50, y |-> i * 50, width |-> 40, height |-> 40, color |-> color]

\* for (j, field) in row.iter().enumerate(): the fields from column j on
RECURSIVE PaintRow(_, _, _)
PaintRow(b, i, j) ==
    IF j >= Cols THEN <<>>
    ELSE (CASE b[i][j] = "Empty" -> <<>>
            [] b[i][j] = "Blue" -> <<Rectangle(i, j, "Blue")>>
            [] b[i][j] = "Red" -> <<Rectangle(i, j, "Red")>>)
         \o PaintRow(b, i, j + 1)

\* for (i, row) in self.board.iter().enumerate(): the rows from row i on
RECURSIVE Paint(_, _)
Paint(b, i) ==
    IF i >= Rows THEN <<>> ELSE PaintRow(b, i, 0) \o Paint(b, i + 1)

\* fn board_canvas(&self)
BoardCanvas(b) == Paint(b, 0)

\* fn ui(&self, frame): the three widgets rendered
Ui ==
    [board |-> BoardCanvas(board),
     red |-> RedPlayerCanvas(turn, input),
     blue |-> BluePlayerCanvas(turn, input)]

\* C14: the panel of the player to move shows the buffer as its text in that
\* player's colour, the other panel shows no text in White, and exactly one
\* panel has a colour other than White.
C14_StatusPanels ==
    LET red == RedPlayerCanvas(turn, input)
        blue == BluePlayerCanvas(turn, input)
        mine == IF turn = "Red" THEN red ELSE blue
        other == IF turn = "Red" THEN blue ELSE red
    IN  /\ mine.text = input
        /\ mine.color = turn
        /\ other.text = <<>>
        /\ other.color = "White"
        /\ Cardinality({p \in {red, blue} : p.color # "White"}) = 1

C14_Witness ==
    /\ turn = "Blue"
    /\ input = <<"0", "4">>
    /\ drawn = "Ok"

\* C15: the rectangles drawn and the non-Empty cells correspond one to one:
\* the cell at row i, column j owned by P gives exactly one rectangle at
\* x = 50 * j, y = 50 * i, 40 wide and 40 high, in P's colour, and an Empty
\* cell gives none.
C15_BoardProjection ==
    \A rs \in {BoardCanvas(board)} :
        LET drawnRects == {rs[k] : k \in 1 .. Len(rs)}
            owned == {c \in RowIdx \X ColIdx : board[c[1]][c[2]] # "Empty"}
        IN  /\ Cardinality(drawnRects) = Len(rs)
            /\ Len(rs) = Cardinality(owned)
            /\ drawnRects =
                  {[x |-> 50 * c[2], y |-> 50 * c[1], width |-> 40,
                    height |-> 40, color |-> board[c[1]][c[2]]] : c \in owned}

C15_Witness ==
    /\ drawn = "Ok"
    /\ Len(BoardCanvas(board)) = Rows * Cols - 2
    /\ board[Rows - 1][Cols - 1] = "Empty"
    /\ board[Rows - 1][Cols - 3] = "Empty"

\* C16: the render step changes neither the board, nor the active player,
\* nor the buffer, and rendering again after it gives the same rectangles
\* and the same panel texts and colours as it gave.
C16_RenderReadOnly ==
    [][Draw => (UNCHANGED <<board, turn, input>> /\ Ui' = Ui)]_vars

C16_Witness ==
    /\ pc = "poll"
    /\ drawn = "Ok"
    /\ turn = "Blue"
    /\ input = <<"7">>
    /\ placed = Rows * Cols - 1

\* the step sets exactly one Empty cell to the token of the player who was
\* to move, and no other cell changes
OnePlaced ==
    \E c \in RowIdx \X ColIdx :
        /\ board[c[1]][c[2]] = "Empty"
        /\ board' = [board EXCEPT ![c[1]][c[2]] = turn]

\* C17: in every step the active player changes exactly when the step is a
\* commit that sets one Empty cell to the previous active player's token,
\* and a step that is no commit changes neither the board nor the active
\* player.
C17_TurnFollowsPlacement ==
    [][/\ (turn' # turn) <=> (Committed /\ OnePlaced)
       /\ ~Committed => UNCHANGED <<board, turn>>]_vars

C17_Witness ==
    /\ ret = "placed"
    /\ turn = "Blue"
    /\ placed = 1
    /\ board[0][0] = "Red"

\* the number of cells of the board that hold the token f
Count(f) == Cardinality({c \in RowIdx \X ColIdx : board[c[1]][c[2]] = f})

\* C18: the Red tokens on the board are as many as the Blue ones when Red
\* is to move, and one more when Blue is to move.
C18_TokenBalance ==
    \A d \in {Count("Red") - Count("Blue")} :
        /\ d \in {0, 1}
        /\ d = 0 <=> turn = "Red"
        /\ d = 1 <=> turn = "Blue"

C18_Witness ==
    /\ turn = "Blue"
    /\ Count("Red") = 2
    /\ Count("Blue") = 1
    /\ pc = "poll"

\* the buffer after n Backspace keys
RECURSIVE PopTimes(_, _)
PopTimes(s, n) == IF n = 0 THEN s ELSE PopTimes(InputPop(s), n - 1)

\* C19: in every state of the loop and for every column c with an Empty
\* cell, as many Backspace keys as the buffer has characters, then the
\* digit c+1, then Enter place the active player's token in the lowest
\* Empty row of column c, whatever the buffer held.
C19_NoDeadEnd ==
    pc \in {"draw", "poll"} =>
        \A c \in ColIdx : ColumnHasEmpty(c) =>
            \A r \in {AppTurn(board, turn,
                              InputPush(PopTimes(input, Len(input)), Chr(c + 1)))} :
                /\ r.ret = "placed"
                /\ r.board = [board EXCEPT ![LowestEmpty(c)][c] = turn]

C19_Witness ==
    /\ ret = "full"
    /\ input = <<"1">>
    /\ ColumnHasEmpty(Cols - 1)
    /\ pc = "draw"

\* a buffer of z zeros
Zeros(z) == [i \in 1 .. z |-> "0"]

\* the numbers of leading zeros tried: the short ones, and two that make
\* the buffer longer than the 20 digits of usize::MAX
ZeroCounts == (1 .. MaxZeros) \cup {20, 24}

\* the buffer is made of zeros only
AllZeros == input # <<>> /\ \A i \in 1 .. Len(input) : input[i] = "0"

\* C20: a commit of zeros followed by one digit n in 1..7 gives the board,
\* the active player and the outcome that a commit of the buffer "n" gives,
\* and clears the buffer when that one does: a token in column n-1 when it
\* has an Empty cell, the rejection of a full column otherwise; a commit of
\* a buffer of zeros only leaves the board, the active player and the
\* buffer as they were.  This holds of every call of App::turn the loop
\* makes, and, whenever the loop waits for a key with an empty buffer, of
\* the call that typing the zeros, the digit and Enter would make.
C20_LeadingZeros ==
    /\ [](pc = "poll" /\ input = <<>> =>
            /\ \A n \in 1 .. Cols :
                 \A one \in {AppTurn(board, turn, <<Chr(n)>>)} :
                 \A z \in ZeroCounts :
                 \A r \in {AppTurn(board, turn, Zeros(z) \o <<Chr(n)>>)} :
                     /\ r.board = one.board
                     /\ r.turn = one.turn
                     /\ r.ret = one.ret
                     /\ (r.input = <<>>) <=> (one.input = <<>>)
                     /\ ColumnHasEmpty(n - 1) =>
                          /\ r.ret = "placed"
                          /\ r.board = [board EXCEPT ![LowestEmpty(n - 1)][n - 1] = turn]
                     /\ ~ColumnHasEmpty(n - 1) => r.ret = "full"
            /\ \A z \in ZeroCounts :
                 \A r \in {AppTurn(board, turn, Zeros(z))} :
                     /\ r.board = board
                     /\ r.turn = turn
                     /\ r.input = Zeros(z)
                     /\ r.ret = "range")
    /\ [][Committed =>
            /\ \A n \in 1 .. Cols : BufferIs(n) =>
                 \A one \in {AppTurn(board, turn, <<Chr(n)>>)} :
                     /\ board' = one.board
                     /\ turn' = one.turn
                     /\ ret' = one.ret
                     /\ (input' = <<>>) <=> (one.input = <<>>)
            /\ AllZeros => (UNCHANGED <<board, turn, input>> /\ ret' = "range")]_vars

C20_Witness ==
    /\ ret = "range"
    /\ input = <<"0", "0">>
    /\ placed = Rows * Cols - 3

====
